---- MODULE Spec2Model ----
(***************************************************************************)
(* Multi-tenant authentication gateway (fastapi-keycloak-auth).            *)
(*                                                                         *)
(* The backend exposes identify-tenant, callback, refresh, logout and /me; *)
(* the protected service exposes /protected and /data.  Both verify bearer *)
(* tokens with decode_token, which fetches the provider's JWKS on every    *)
(* call.  Every backend request runs inside one get_db session.            *)
(*                                                                         *)
(* Strings whose characters matter (URL building) are sequences of units:  *)
(* a unit is either one reserved character or a run of unreserved ones     *)
(* ("microsoft", "3000").  Other strings are plain TLA+ strings.  Python's *)
(* None is the string NONE.                                                *)
(***************************************************************************)
EXTENDS Integers, Sequences, FiniteSets, TLC

NONE == "None"

(***************************************************************************)
(* Bounds.                                                                 *)
(***************************************************************************)
\* the clock stops here: every callback / refresh reads datetime.utcnow() once
MaxTime == 2

(***************************************************************************)
(* urllib.parse.urlencode / quote_plus, as used by identify_tenant.        *)
(***************************************************************************)
\* characters quote_plus does not leave alone
Reserved == {" ", "&", "=", "%", "+", "/", ":", "?"}

\* the two hex digits quote() writes after "%" for a reserved character
PctCode(c) ==
    CASE c = "&" -> "26"
      [] c = "=" -> "3D"
      [] c = "%" -> "25"
      [] c = "+" -> "2B"
      [] c = "/" -> "2F"
      [] c = ":" -> "3A"
      [] c = "?" -> "3F"
      [] c = " " -> "20"

\* the unit left as it is
QuoteUnit_Raw(u) == <<u>>

\* quote_plus on one unit: space becomes "+", other reserved characters are
\* percent-encoded, unreserved runs are kept
QuoteUnit(u) ==
    IF u = " " THEN <<"+">>
    ELSE IF u \in Reserved THEN <<"%", PctCode(u)>>
    ELSE <<u>>

RECURSIVE QuotePlus(_)
QuotePlus(s) ==
    IF s = <<>> THEN <<>> ELSE QuoteUnit(Head(s)) \o QuotePlus(Tail(s))

\* urlencode(dict): "&".join(quote_plus(k) + "=" + quote_plus(v)), in dict order
RECURSIVE UrlEncode(_)
UrlEncode(params) ==
    IF params = <<>> THEN <<>>
    ELSE LET p == Head(params)
             one == QuotePlus(p[1]) \o <<"=">> \o QuotePlus(p[2])
         IN  IF Len(params) = 1 THEN one
             ELSE one \o <<"&">> \o UrlEncode(Tail(params))

(***************************************************************************)
(* Settings (app/config.py).                                               *)
(***************************************************************************)
KEYCLOAK_CLIENT_ID == <<"fastapi-backend">>

OAUTH_REDIRECT_URI ==
    <<"http", ":", "/", "/", "localhost", ":", "3000", "/", "auth", "/", "callback">>

\* settings.auth_url: {KEYCLOAK_PUBLIC_URL}/realms/{KEYCLOAK_REALM}/protocol/openid-connect/auth
auth_url ==
    <<"http", ":", "/", "/", "localhost", "/", "auth", "/", "keycloak", "/", "realms", "/",
      "multi-tenant-app", "/", "protocol", "/", "openid-connect", "/", "auth">>

(***************************************************************************)
(* Tables (app/models/tenant.py, app/models/user.py).                      *)
(***************************************************************************)
Statuses == {"active", "inactive"}

\* what init_db.seed_data inserts: two active tenants with alias "microsoft"
SeedTenants ==
    { [id |-> "TA", name |-> "Tenant A Corp", identifier |-> "tenant-a",
       keycloak_idp_alias |-> <<"microsoft">>, status |-> "active"],
      [id |-> "TB", name |-> "Tenant B Industries", identifier |-> "tenant-b",
       keycloak_idp_alias |-> <<"microsoft">>, status |-> "active"] }

\* aliases provisioning may store: any String(255)
Aliases == { <<"microsoft">>, <<"my", " ", "idp">>, <<"a", "&", "b", "=", "c">> }

\* the tenants table after provisioning changed statuses (aliases stay seeded)
TenantTables ==
    { { [t EXCEPT !.status = st[t.id]] : t \in SeedTenants } :
        st \in [{"TA", "TB"} -> Statuses] }

\* the tenants table after provisioning changed statuses and aliases
TenantTablesWide ==
    { { [t EXCEPT !.status = st[t.id], !.keycloak_idp_alias = al[t.id]] : t \in SeedTenants } :
        st \in [{"TA", "TB"} -> Statuses], al \in [{"TA", "TB"} -> Aliases] }

Subs == {"s1", "s2"}
Emails == {"a@x.com", "b@x.com"}
Departments == {"tenant-a", "tenant-b", "unknown-dept"}

VARIABLES
    tenants,        \* the tenants table
    users,          \* the users table (committed rows)
    now,            \* datetime.utcnow(), as a counter
    public_key,     \* KeycloakService._public_key
    pend,           \* the uncommitted writes of the sessions in flight
    open,           \* the number of database sessions acquired and not closed
    outage,         \* whether a key-set fetch of an earlier request failed, where recorded
    last            \* the request the latest step finished (inputs and response), if any

vars == <<tenants, users, now, public_key, pend, open, outage, last>>

\* the lookup without the identifier filter
ActiveTenantByIdentifier_AnyTenant(d) == { t \in tenants : t.status = "active" }

\* the lookup without the status filter
ActiveTenantByIdentifier_AnyStatus(d) == { t \in tenants : t.identifier = d }

\* db.query(Tenant).filter(Tenant.identifier == d, Tenant.status == "active").first():
\* the set of matching rows (identifier is unique, so at most one)
ActiveTenantByIdentifier(d) ==
    { t \in tenants : t.identifier = d /\ t.status = "active" }

\* db.query(User).filter(User.keycloak_user_id == sub).first()
UserBySub(sub) == { u \in users : u.keycloak_user_id = sub }

\* no bearer token presented, none obtained
NoToken ==
    [form |-> NONE, kid |-> NONE, sig |-> NONE, exp |-> NONE, aud |-> NONE, iss |-> NONE,
     sub |-> NONE, email |-> NONE, given_name |-> NONE, family_name |-> NONE]

\* no key set asked for, or the answer is not on record
JwksNotAsked == [kind |-> NONE, keys |-> {}, status |-> 0]

\* a response record with the request's inputs; fields a handler does not use
\* stay empty.  upstream is the answer of the token or logout endpoint the
\* handler called, posts the number of POSTs it made there, fetches the number
\* of GETs of the key set
Response(op, status, detail) ==
    [op |-> op, status |-> status, detail |-> detail, dept |-> NONE, token |-> NoToken,
     jwks |-> JwksNotAsked, fetches |-> 0, upstream |-> NONE, posts |-> 0, body |-> NONE]

(***************************************************************************)
(* get_db (app/dependencies.py): the session of a request.                 *)
(***************************************************************************)
\* how a handler leaves the generator: it returns, or an exception is thrown in
Exit(status) == IF status = 200 THEN "return" ELSE "HTTPException"

\* the generator without its finally clause
get_db_NoFinally(exit) ==
    IF exit = "return" THEN <<"close">> ELSE <<"rollback">>

\* lines 33-40: what the generator does to its session after the yield: on an
\* exception db.rollback() and re-raise, and db.close() in the finally clause
get_db(exit) ==
    IF exit = "return" THEN <<"close">> ELSE <<"rollback", "close">>

\* the sessions a sequence of session calls closes
Closes(calls) == Cardinality({ i \in DOMAIN calls : calls[i] = "close" })

\* line 32 and lines 33-40 in one step: a request that begins with n open
\* sessions acquires its own and ends with the given status
Scoped(n, status) == n + 1 - Closes(get_db(Exit(status)))

\* lines 33-40 for a request that acquired its session in an earlier step
Released(n, status) == n - Closes(get_db(Exit(status)))

(***************************************************************************)
(* POST /auth/identify-tenant                                              *)
(***************************************************************************)
\* the auth_params dict, in insertion order
AuthParams(tenant) ==
    << <<<<"client_id">>, KEYCLOAK_CLIENT_ID>>,
       <<<<"response_type">>, <<"code">>>>,
       <<<<"redirect_uri">>, OAUTH_REDIRECT_URI>>,
       <<<<"kc_idp_hint">>, tenant.keycloak_idp_alias>> >>

\* f"{settings.auth_url}?{urlencode(auth_params)}"
BuildAuthUrl(tenant) == auth_url \o <<"?">> \o UrlEncode(AuthParams(tenant))

\* the not-found answer echoing the department as the tenant name
IdentifyTenantBody_Echo(department) ==
    LET found == ActiveTenantByIdentifier(department)
    IN  IF found = {}
        THEN [tenant_found |-> FALSE, tenant_name |-> department, tenant_id |-> NONE,
              keycloak_auth_url |-> NONE]
        ELSE LET tenant == CHOOSE t \in found : TRUE
             IN  [tenant_found |-> TRUE, tenant_name |-> tenant.name,
                  tenant_id |-> tenant.id, keycloak_auth_url |-> BuildAuthUrl(tenant)]

IdentifyTenantBody(department) ==
    LET found == ActiveTenantByIdentifier(department)
    IN  IF found = {}
        THEN [tenant_found |-> FALSE, tenant_name |-> NONE, tenant_id |-> NONE,
              keycloak_auth_url |-> NONE]
        ELSE LET tenant == CHOOSE t \in found : TRUE
             IN  [tenant_found |-> TRUE, tenant_name |-> tenant.name,
                  tenant_id |-> tenant.id, keycloak_auth_url |-> BuildAuthUrl(tenant)]

IdentifyTenant ==
    \E department \in Departments :
        /\ last' = [Response("identify_tenant", 200, "ok") EXCEPT
                        !.dept = department, !.body = IdentifyTenantBody(department)]
        /\ open' = Scoped(open, 200)
        /\ UNCHANGED <<tenants, users, now, public_key, pend, outage>>

NoRequest == Response(NONE, 0, NONE)

InitDirectory ==
    /\ tenants \in TenantTablesWide
    /\ users = {}
    /\ now = 0
    /\ public_key = NONE
    /\ pend = {}
    /\ open = 0
    /\ outage = "unrecorded"
    /\ last = NoRequest

NextDirectory == IdentifyTenant

SpecDirectory == InitDirectory /\ [][NextDirectory]_vars

(***************************************************************************)
(* Bearer tokens and the provider's key set.                               *)
(***************************************************************************)
Kids == {"k1", "k2"}

\* given_name / family_name pairs the provider may put in a token
Names == { <<"Ann", "Lee">>, <<"Bea", "Kim">> }

\* a well-formed, unexpired token signed with key k1 for this client
BaseToken(sub, email, names) ==
    [form |-> "jwt", kid |-> "k1", sig |-> "good", exp |-> "live",
     aud |-> "fastapi-backend", iss |-> "multi-tenant-app",
     sub |-> sub, email |-> email, given_name |-> names[1], family_name |-> names[2]]

\* tokens a login can end with: every combination of present / absent sub and email
LoginTokens ==
    { BaseToken(sub, email, names) :
        sub \in Subs \cup {NONE}, email \in Emails \cup {NONE}, names \in Names }

\* the same with the names the provider holds for each mailbox
ProfileTokens ==
    { BaseToken(sub, email, IF email = "b@x.com" THEN <<"Bea", "Kim">> ELSE <<"Ann", "Lee">>) :
        sub \in Subs \cup {NONE}, email \in Emails \cup {NONE} }

GoodToken == BaseToken("s1", "a@x.com", <<"Ann", "Lee">>)

\* the ways a presented token can deviate from GoodToken
DefectTokens ==
    { [GoodToken EXCEPT !.form = "garbage"],
      [GoodToken EXCEPT !.exp = "expired"],
      [GoodToken EXCEPT !.sig = "bad"],
      [GoodToken EXCEPT !.kid = "k2"],
      [GoodToken EXCEPT !.kid = "k2", !.sub = "s2"],
      [GoodToken EXCEPT !.aud = "other-client"],
      [GoodToken EXCEPT !.iss = "other-realm"],
      [GoodToken EXCEPT !.aud = "other-client", !.iss = "other-realm"],
      [GoodToken EXCEPT !.aud = "other-client", !.exp = "expired"] }

Tokens == LoginTokens \cup DefectTokens

\* what GET certs_url can produce: a key set, no answer, or a body that is not
\* JSON.  status is the HTTP status of the answer (0: there was none)
JwksResponses ==
    { [kind |-> "keys", keys |-> K, status |-> 200] : K \in {{"k1"}, {"k1", "k2"}} }
    \cup { [kind |-> "unreachable", keys |-> {}, status |-> 0],
           [kind |-> "malformed", keys |-> {}, status |-> 200] }

\* non-2xx answers of certs_url: an HTML error page, a JSON error object
\* ({"error": ...}), and a JSON body with an empty "keys" list
JwksErrors ==
    { [kind |-> "malformed", keys |-> {}, status |-> 503],
      [kind |-> "error_object", keys |-> {}, status |-> 404],
      [kind |-> "keys", keys |-> {}, status |-> 500] }

Claims(token) ==
    [sub |-> token.sub, email |-> token.email, given_name |-> token.given_name,
     family_name |-> token.family_name, aud |-> token.aud, iss |-> token.iss]

\* the decode without the exp check
JwtDecode_NoExp(token, keys) ==
    IF token.form # "jwt" THEN [kind |-> "JWTError", claims |-> NONE]
    ELSE IF ~(token.sig = "good" /\ token.kid \in keys)
        THEN [kind |-> "JWTError", claims |-> NONE]
    ELSE [kind |-> "ok", claims |-> Claims(token)]

\* the decode with the audience check left on
JwtDecode_VerifyAud(token, keys) ==
    IF token.form # "jwt" THEN [kind |-> "JWTError", claims |-> NONE]
    ELSE IF ~(token.sig = "good" /\ token.kid \in keys)
        THEN [kind |-> "JWTError", claims |-> NONE]
    ELSE IF token.exp # "live" THEN [kind |-> "JWTError", claims |-> NONE]
    ELSE IF <<token.aud>> # KEYCLOAK_CLIENT_ID THEN [kind |-> "JWTError", claims |-> NONE]
    ELSE [kind |-> "ok", claims |-> Claims(token)]

\* jose.jwt.decode(token, jwks, algorithms=["RS256"],
\*                 options={"verify_aud": False, "verify_iss": False}):
\* header and signature first, then the exp claim; aud and iss are not looked at
JwtDecode(token, keys) ==
    IF token.form # "jwt" THEN [kind |-> "JWTError", claims |-> NONE]
    ELSE IF ~(token.sig = "good" /\ token.kid \in keys)
        THEN [kind |-> "JWTError", claims |-> NONE]
    ELSE IF token.exp # "live" THEN [kind |-> "JWTError", claims |-> NONE]
    ELSE [kind |-> "ok", claims |-> Claims(token)]

\* a verifier that keeps key k1 and rejects any other key id without fetching
decode_token_Stale(token, jwks) ==
    IF token.kid # "k1"
    THEN [kind |-> "InvalidToken", claims |-> NONE, fetches |-> 0]
    ELSE IF jwks.kind # "keys"
    THEN [kind |-> "FetchError", claims |-> NONE, fetches |-> 1]
    ELSE LET d == JwtDecode(token, jwks.keys)
         IN  IF d.kind = "ok"
             THEN [kind |-> "ok", claims |-> d.claims, fetches |-> 1]
             ELSE [kind |-> "InvalidToken", claims |-> NONE, fetches |-> 1]

\* a verifier that remembers a failed fetch and does not fetch again
decode_token_Negative(token, jwks) ==
    IF outage = "failed"
    THEN [kind |-> "FetchError", claims |-> NONE, fetches |-> 0]
    ELSE IF jwks.kind # "keys"
    THEN [kind |-> "FetchError", claims |-> NONE, fetches |-> 1]
    ELSE LET d == JwtDecode(token, jwks.keys)
         IN  IF d.kind = "ok"
             THEN [kind |-> "ok", claims |-> d.claims, fetches |-> 1]
             ELSE [kind |-> "InvalidToken", claims |-> NONE, fetches |-> 1]

\* KeycloakService.decode_token / service decode_token: one GET of the JWKS, then
\* jwt.decode; only JWTError is rewrapped as "Invalid token", anything else
\* (no answer, a body that is not JSON, a JSON body jose cannot build keys from)
\* propagates as it is.  The status of the answer is never read.  fetches counts
\* the GETs made.
decode_token(token, jwks) ==
    IF jwks.kind # "keys"
    THEN [kind |-> "FetchError", claims |-> NONE, fetches |-> 1]
    ELSE LET d == JwtDecode(token, jwks.keys)
         IN  IF d.kind = "ok"
             THEN [kind |-> "ok", claims |-> d.claims, fetches |-> 1]
             ELSE [kind |-> "InvalidToken", claims |-> NONE, fetches |-> 1]

\* the record of failed key-set fetches after a request that got answer jwks
\* (JwksNotAsked: it made no fetch); kept only where Init starts one
Noted(log, jwks) ==
    IF log = "unrecorded" THEN log
    ELSE IF jwks.kind \in {"unreachable", "malformed", "error_object"} THEN "failed"
    ELSE log

(***************************************************************************)
(* get_current_user (app/dependencies.py) and GET /auth/me                 *)
(***************************************************************************)
\* the dependency answering 401 for a user that is not active
get_current_user_Inactive401(token, jwks) ==
    LET d == decode_token(token, jwks)
    IN  IF d.kind # "ok"
        THEN [status |-> 401, detail |-> "Authentication failed", user |-> NONE,
              fetches |-> d.fetches]
        ELSE IF d.claims.sub = NONE
        THEN [status |-> 401, detail |-> "Invalid token: missing user ID", user |-> NONE,
              fetches |-> d.fetches]
        ELSE IF UserBySub(d.claims.sub) = {}
        THEN [status |-> 404, detail |-> "User not found in database", user |-> NONE,
              fetches |-> d.fetches]
        ELSE LET user == CHOOSE u \in UserBySub(d.claims.sub) : TRUE
             IN  IF user.status # "active"
                 THEN [status |-> 401, detail |-> "User account is not active",
                       user |-> NONE, fetches |-> d.fetches]
                 ELSE [status |-> 200, detail |-> "ok", user |-> user,
                       fetches |-> d.fetches]

\* the dependency's outcome: the user row, or the HTTPException it raises
get_current_user(token, jwks) ==
    LET d == decode_token(token, jwks)
    IN  IF d.kind # "ok"
        THEN [status |-> 401, detail |-> "Authentication failed", user |-> NONE,
              fetches |-> d.fetches]
        ELSE IF d.claims.sub = NONE
        THEN [status |-> 401, detail |-> "Invalid token: missing user ID", user |-> NONE,
              fetches |-> d.fetches]
        ELSE IF UserBySub(d.claims.sub) = {}
        THEN [status |-> 404, detail |-> "User not found in database", user |-> NONE,
              fetches |-> d.fetches]
        ELSE LET user == CHOOSE u \in UserBySub(d.claims.sub) : TRUE
             IN  IF user.status # "active"
                 THEN [status |-> 403, detail |-> "User account is not active",
                       user |-> NONE, fetches |-> d.fetches]
                 ELSE [status |-> 200, detail |-> "ok", user |-> user,
                       fetches |-> d.fetches]

TenantById(id) == { t \in tenants : t.id = id }

\* UserResponse with the embedded TenantResponse
UserBody(user) ==
    [user |-> user, tenant |-> CHOOSE t \in TenantById(user.tenant_id) : TRUE]

GetMeResponse(token, jwks) ==
    LET a == get_current_user(token, jwks)
    IN  IF a.status # 200
        THEN [Response("me", a.status, a.detail) EXCEPT
                 !.token = token, !.jwks = jwks, !.fetches = a.fetches]
        ELSE IF TenantById(a.user.tenant_id) = {}
        THEN [Response("me", 404, "Tenant not found") EXCEPT
                 !.token = token, !.jwks = jwks, !.fetches = a.fetches]
        ELSE [Response("me", 200, "ok") EXCEPT
                 !.token = token, !.jwks = jwks, !.fetches = a.fetches,
                 !.body = UserBody(a.user)]

GetMe(I) ==
    \E i \in I :
        /\ last' = GetMeResponse(i.token, i.jwks)
        /\ open' = Scoped(open, last'.status)
        /\ outage' = Noted(outage, i.jwks)
        /\ UNCHANGED <<tenants, users, now, public_key, pend>>

(***************************************************************************)
(* The protected service: get_current_user (service/dependencies.py) and   *)
(* GET /protected                                                          *)
(***************************************************************************)
\* the dependency without the check for a missing sub
service_get_current_user_NoSubCheck(token, jwks) ==
    LET d == decode_token(token, jwks)
    IN  IF d.kind # "ok"
        THEN [status |-> 401, detail |-> "Authentication failed", claims |-> NONE,
              fetches |-> d.fetches]
        ELSE [status |-> 200, detail |-> "ok", claims |-> d.claims, fetches |-> d.fetches]

service_get_current_user(token, jwks) ==
    LET d == decode_token(token, jwks)
    IN  IF d.kind # "ok"
        THEN [status |-> 401, detail |-> "Authentication failed", claims |-> NONE,
              fetches |-> d.fetches]
        ELSE IF d.claims.sub = NONE
        THEN [status |-> 401, detail |-> "Invalid token: missing user ID",
              claims |-> NONE, fetches |-> d.fetches]
        ELSE [status |-> 200, detail |-> "ok", claims |-> d.claims, fetches |-> d.fetches]

ProtectedResponse(token, jwks) ==
    LET a == service_get_current_user(token, jwks)
    IN  [Response("protected", a.status, a.detail) EXCEPT
            !.token = token, !.jwks = jwks, !.fetches = a.fetches,
            !.body = IF a.status = 200
                     THEN [message |-> "Access granted to protected resource",
                           id |-> a.claims.sub, email |-> a.claims.email,
                           given_name |-> a.claims.given_name,
                           family_name |-> a.claims.family_name]
                     ELSE NONE]

ProtectedEndpoint(I) ==
    \E i \in I :
        /\ last' = ProtectedResponse(i.token, i.jwks)
        /\ outage' = Noted(outage, i.jwks)
        /\ UNCHANGED <<tenants, users, now, public_key, pend, open>>

\* the ids of the three sample items get_data returns
SampleData == {1, 2, 3}

\* GET /data: the sample items and the email claim
DataResponse(token, jwks) ==
    LET a == service_get_current_user(token, jwks)
    IN  [Response("data", a.status, a.detail) EXCEPT
            !.token = token, !.jwks = jwks, !.fetches = a.fetches,
            !.body = IF a.status = 200
                     THEN [data |-> SampleData, user_email |-> a.claims.email]
                     ELSE NONE]

DataEndpoint(I) ==
    \E i \in I :
        /\ last' = DataResponse(i.token, i.jwks)
        /\ outage' = Noted(outage, i.jwks)
        /\ UNCHANGED <<tenants, users, now, public_key, pend, open>>

(***************************************************************************)
(* The provider's token and logout endpoints (keycloak_service.py).        *)
(***************************************************************************)
\* how a POST to the provider can fail: response.raise_for_status() raises
\* HTTPStatusError on a non-2xx answer; a timeout or a refused connection
\* raises before there is an answer
ProviderFailures == {"non_2xx", "no_answer"}

\* the exchange without raise_for_status: any answer is taken for a token set
exchange_code_for_token_NoRaise(answer) ==
    IF answer.kind # "no_answer"
    THEN [kind |-> "ok", posts |-> 1]
    ELSE [kind |-> "Token exchange failed", posts |-> 1]

\* exchange_code_for_token: one POST to token_url; both except clauses raise
\* Exception("Token exchange failed: ...")
exchange_code_for_token(answer) ==
    IF answer.kind = "ok"
    THEN [kind |-> "ok", posts |-> 1]
    ELSE [kind |-> "Token exchange failed", posts |-> 1]

\* refresh_access_token: one POST to token_url; both except clauses raise
\* Exception("Token refresh failed: ...")
refresh_access_token(answer) ==
    IF answer.kind = "ok"
    THEN [kind |-> "ok", posts |-> 1]
    ELSE [kind |-> "Token refresh failed", posts |-> 1]

\* the revocation without raise_for_status: any answer counts as revoked
revoke_token_AnyAnswer(answer) ==
    IF answer.kind # "no_answer"
    THEN [kind |-> "ok", posts |-> 1]
    ELSE [kind |-> "Token revocation failed", posts |-> 1]

\* revoke_token: one POST to logout_url; True on a 2xx answer, otherwise
\* Exception("Token revocation failed: ...")
revoke_token(answer) ==
    IF answer.kind = "ok"
    THEN [kind |-> "ok", posts |-> 1]
    ELSE [kind |-> "Token revocation failed", posts |-> 1]

(***************************************************************************)
(* The users table: constraints checked when a session flushes.            *)
(***************************************************************************)
\* the column without its unique index
SubTaken_Never(row, others) == FALSE

\* unique=True on users.keycloak_user_id
SubTaken(row, others) ==
    \E u \in others : u.keycloak_user_id = row.keycloak_user_id

\* the table without uq_tenant_email
TenantEmailTaken_Never(row, others) == FALSE

\* UniqueConstraint("tenant_id", "email", name="uq_tenant_email")
TenantEmailTaken(row, others) ==
    \E u \in others : u.tenant_id = row.tenant_id /\ u.email = row.email

\* the store raises IntegrityError for a row that breaks a unique constraint
IntegrityError(row, others) == SubTaken(row, others) \/ TenantEmailTaken(row, others)

\* default=uuid.uuid4: an id no committed row has
NewId == Cardinality(users) + 1

UserById(id) == CHOOSE u \in users : u.id = id

\* the changed attributes, last_login left out of the UPDATE
Dirty_NoLastLogin(user, obj) == { f \in DOMAIN obj : obj[f] # user[f] } \ {"last_login"}

\* the attributes of the loaded object the handler changed: the columns of the UPDATE
Dirty(user, obj) == { f \in DOMAIN obj : obj[f] # user[f] }

\* an UPDATE that leaves the department column out
Updated_NoDepartment(cur, obj, dirty) ==
    [f \in DOMAIN cur |-> IF f \in dirty \ {"department"} THEN obj[f] ELSE cur[f]]

\* the row an UPDATE ... WHERE id = :id leaves, applied to the committed row
Updated(cur, obj, dirty) ==
    [f \in DOMAIN cur |-> IF f \in dirty THEN obj[f] ELSE cur[f]]

\* an INSERT that leaves the last_login column out
Inserted_NoLastLogin(obj) == [obj EXCEPT !.id = NewId, !.last_login = 0]

\* the row an INSERT of the pending object adds
Inserted(obj) == [obj EXCEPT !.id = NewId]

\* the flush of db.commit(): the pending write against the committed table.  The
\* result is the new table and the row db.refresh(user) then loads, or the
\* IntegrityError.
Flush(p) ==
    IF p.kind = "insert"
    THEN LET row == Inserted(p.obj)
         IN  IF IntegrityError(row, users)
             THEN [ok |-> FALSE, table |-> users, row |-> p.obj, error |-> "IntegrityError"]
             ELSE [ok |-> TRUE, table |-> users \cup {row}, row |-> row, error |-> NONE]
    ELSE LET cur == UserById(p.id)
             row == Updated(cur, p.obj, p.dirty)
         IN  IF TenantEmailTaken(row, users \ {cur})
             THEN [ok |-> FALSE, table |-> users, row |-> p.obj, error |-> "IntegrityError"]
             ELSE [ok |-> TRUE, table |-> (users \ {cur}) \cup {row}, row |-> row, error |-> NONE]

\* whether the connection to the store breaks while a commit is under way
StoreUp == {FALSE}
StoreFaulty == {FALSE, TRUE}

\* a commit that keeps the rows flushed before the connection broke
Commit_Partial(p, broken) ==
    IF broken
    THEN [ok |-> FALSE, table |-> Flush(p).table, row |-> p.obj, error |-> "OperationalError"]
    ELSE Flush(p)

\* db.commit() in one transaction: the flush and the COMMIT both take effect, or
\* the exception leaves the table as it was (the handler then calls db.rollback())
Commit(p, broken) ==
    IF broken
    THEN [ok |-> FALSE, table |-> users, row |-> p.obj, error |-> "OperationalError"]
    ELSE Flush(p)

\* a session's pending write: the object in the session and its changed attributes
Write(op, kind, ex, tenant_id, obj, dirty) ==
    [op |-> op, kind |-> kind, id |-> obj.id, token |-> ex.access_token, jwks |-> ex.jwks,
     posts |-> IF op = "callback" THEN exchange_code_for_token(ex).posts
               ELSE refresh_access_token(ex).posts,
     tenant_id |-> tenant_id, obj |-> obj, dirty |-> dirty]

UserColumns ==
    {"id", "tenant_id", "keycloak_user_id", "email", "first_name", "last_name",
     "department", "status", "last_login"}

\* a handler that raised before it wrote anything
Raised(status, detail, fetches) ==
    [status |-> status, detail |-> detail, fetches |-> fetches, pending |-> FALSE]


\* a handler that reached db.commit() with write w
Pending(w, fetches) ==
    [status |-> 0, detail |-> "pending", fetches |-> fetches, pending |-> TRUE, write |-> w]

(***************************************************************************)
(* POST /auth/callback                                                     *)
(***************************************************************************)
\* what POST token_url can produce for a code or a refresh token: a token set
\* carrying one of the access tokens of I, or a non-2xx answer
TokenEndpointResponses(I) ==
    { [kind |-> "ok", access_token |-> i.token, jwks |-> i.jwks] : i \in I }
    \cup { [kind |-> "non_2xx", access_token |-> NoToken, jwks |-> JwksNotAsked] }

\* the answers of I's token endpoint plus the POST that gets no answer
TokenEndpointAnswers(I) ==
    { [kind |-> "ok", access_token |-> i.token, jwks |-> i.jwks] : i \in I }
    \cup { [kind |-> k, access_token |-> NoToken, jwks |-> JwksNotAsked] : k \in ProviderFailures }

\* department = "tenant-a"  # Department from Azure AD
CallbackDepartment == "tenant-a"

\* the handler with an update branch that also sets status = "active"
CallbackRead_Reactivate(ex, utcnow) ==
    IF exchange_code_for_token(ex).kind # "ok"
    THEN Raised(500, exchange_code_for_token(ex).kind, 0)
    ELSE LET d == decode_token(ex.access_token, ex.jwks)
         IN  IF d.kind # "ok"
             THEN Raised(500, d.kind, d.fetches)
             ELSE IF d.claims.sub = NONE \/ d.claims.email = NONE
             THEN Raised(400, "Missing required user information in token", d.fetches)
             ELSE IF ActiveTenantByIdentifier(CallbackDepartment) = {}
             THEN Raised(404, "No active tenant found", d.fetches)
             ELSE LET tenant == CHOOSE t \in ActiveTenantByIdentifier(CallbackDepartment) : TRUE
                      found == UserBySub(d.claims.sub)
                  IN  IF found # {}
                      THEN LET user == CHOOSE u \in found : TRUE
                               obj == [user EXCEPT
                                          !.email = d.claims.email,
                                          !.first_name = d.claims.given_name,
                                          !.last_name = d.claims.family_name,
                                          !.department = CallbackDepartment,
                                          !.tenant_id = tenant.id,
                                          !.status = "active",
                                          !.last_login = utcnow]
                           IN  Pending(Write("callback", "update", ex,
                                             tenant.id, obj, Dirty(user, obj)), d.fetches)
                      ELSE LET obj == [id |-> 0, tenant_id |-> tenant.id,
                                       keycloak_user_id |-> d.claims.sub,
                                       email |-> d.claims.email,
                                       first_name |-> d.claims.given_name,
                                       last_name |-> d.claims.family_name,
                                       department |-> CallbackDepartment,
                                       status |-> "active", last_login |-> utcnow]
                           IN  Pending(Write("callback", "insert", ex,
                                             tenant.id, obj, UserColumns), d.fetches)

\* the handler with a 400 check that looks at sub only
CallbackRead_SubOnly(ex, utcnow) ==
    IF exchange_code_for_token(ex).kind # "ok"
    THEN Raised(500, exchange_code_for_token(ex).kind, 0)
    ELSE LET d == decode_token(ex.access_token, ex.jwks)
         IN  IF d.kind # "ok"
             THEN Raised(500, d.kind, d.fetches)
             ELSE IF d.claims.sub = NONE
             THEN Raised(400, "Missing required user information in token", d.fetches)
             ELSE IF ActiveTenantByIdentifier(CallbackDepartment) = {}
             THEN Raised(404, "No active tenant found", d.fetches)
             ELSE LET tenant == CHOOSE t \in ActiveTenantByIdentifier(CallbackDepartment) : TRUE
                      found == UserBySub(d.claims.sub)
                  IN  IF found # {}
                      THEN LET user == CHOOSE u \in found : TRUE
                               obj == [user EXCEPT
                                          !.email = d.claims.email,
                                          !.first_name = d.claims.given_name,
                                          !.last_name = d.claims.family_name,
                                          !.department = CallbackDepartment,
                                          !.tenant_id = tenant.id,
                                          !.last_login = utcnow]
                           IN  Pending(Write("callback", "update", ex,
                                             tenant.id, obj, Dirty(user, obj)), d.fetches)
                      ELSE LET obj == [id |-> 0, tenant_id |-> tenant.id,
                                       keycloak_user_id |-> d.claims.sub,
                                       email |-> d.claims.email,
                                       first_name |-> d.claims.given_name,
                                       last_name |-> d.claims.family_name,
                                       department |-> CallbackDepartment,
                                       status |-> "active", last_login |-> utcnow]
                           IN  Pending(Write("callback", "insert", ex,
                                             tenant.id, obj, UserColumns), d.fetches)

\* lines 115-182: exchange, decode, the 400 and 404 checks, find-or-create
CallbackRead(ex, utcnow) ==
    IF exchange_code_for_token(ex).kind # "ok"
    THEN Raised(500, exchange_code_for_token(ex).kind, 0)
    ELSE LET d == decode_token(ex.access_token, ex.jwks)
         IN  IF d.kind # "ok"
             THEN Raised(500, d.kind, d.fetches)
             ELSE IF d.claims.sub = NONE \/ d.claims.email = NONE
             THEN Raised(400, "Missing required user information in token", d.fetches)
             ELSE IF ActiveTenantByIdentifier(CallbackDepartment) = {}
             THEN Raised(404, "No active tenant found", d.fetches)
             ELSE LET tenant == CHOOSE t \in ActiveTenantByIdentifier(CallbackDepartment) : TRUE
                      found == UserBySub(d.claims.sub)
                  IN  IF found # {}
                      THEN LET user == CHOOSE u \in found : TRUE
                               obj == [user EXCEPT
                                          !.email = d.claims.email,
                                          !.first_name = d.claims.given_name,
                                          !.last_name = d.claims.family_name,
                                          !.department = CallbackDepartment,
                                          !.tenant_id = tenant.id,
                                          !.last_login = utcnow]
                           IN  Pending(Write("callback", "update", ex,
                                             tenant.id, obj, Dirty(user, obj)), d.fetches)
                      ELSE LET obj == [id |-> 0, tenant_id |-> tenant.id,
                                       keycloak_user_id |-> d.claims.sub,
                                       email |-> d.claims.email,
                                       first_name |-> d.claims.given_name,
                                       last_name |-> d.claims.family_name,
                                       department |-> CallbackDepartment,
                                       status |-> "active", last_login |-> utcnow]
                           IN  Pending(Write("callback", "insert", ex,
                                             tenant.id, obj, UserColumns), d.fetches)

\* the response of a handler that ended with status and detail
Ended(op, status, detail, token, jwks, fetches, upstream, posts) ==
    [Response(op, status, detail) EXCEPT !.token = token, !.jwks = jwks, !.fetches = fetches,
                                         !.upstream = upstream, !.posts = posts]

CallbackBegin(X) ==
    /\ \E ex \in X :
         LET r == CallbackRead(ex, now + 1)
         IN  /\ outage' = Noted(outage, ex.jwks)
             /\ IF ~r.pending
                THEN /\ last' = Ended("callback", r.status, r.detail, ex.access_token,
                                      ex.jwks, r.fetches, ex.kind,
                                      exchange_code_for_token(ex).posts)
                     /\ open' = Scoped(open, r.status)
                     /\ UNCHANGED <<now, pend>>
                ELSE /\ now < MaxTime
                     /\ now' = now + 1
                     /\ pend' = pend \cup {r.write}
                     /\ open' = open + 1
                     /\ last' = NoRequest
    /\ UNCHANGED <<tenants, users, public_key>>

\* the TokenResponse: the tokens, the refreshed user and its tenant
TokenBody(token, row, tenant_id) ==
    [access_token |-> token, user |-> row, tenant_id |-> tenant_id]

\* logger.info of the branch taken: "Updated existing user" / "Created new user"
CallbackLog(p) ==
    IF p.kind = "update" THEN "Updated existing user" ELSE "Created new user"

\* lines 184-223: commit, refresh, build the TokenResponse; on any exception
\* rollback and answer 500
CallbackCommit(p, S) ==
    /\ p.op = "callback"
    /\ \E broken \in S :
         LET f == Commit(p, broken)
         IN  /\ users' = f.table
             /\ last' = IF f.ok
                        THEN [Ended("callback", 200, CallbackLog(p), p.token, p.jwks, 1,
                                    "ok", p.posts) EXCEPT
                                 !.body = TokenBody(p.token, f.row, p.tenant_id)]
                        ELSE Ended("callback", 500, f.error, p.token, p.jwks, 1,
                                   "ok", p.posts)
    /\ pend' = pend \ {p}
    /\ open' = Released(open, last'.status)
    /\ UNCHANGED <<tenants, now, public_key, outage>>

(***************************************************************************)
(* POST /auth/refresh                                                      *)
(***************************************************************************)
\* a refresh that creates the user it does not find, in an active tenant
RefreshRead_Upsert(rx, utcnow) ==
    IF refresh_access_token(rx).kind # "ok"
    THEN Raised(500, refresh_access_token(rx).kind, 0)
    ELSE LET d == decode_token(rx.access_token, rx.jwks)
         IN  IF d.kind # "ok"
             THEN Raised(500, d.kind, d.fetches)
             ELSE IF UserBySub(d.claims.sub) = {}
             THEN LET tenant == CHOOSE t \in tenants : t.status = "active"
                      obj == [id |-> 0, tenant_id |-> tenant.id,
                              keycloak_user_id |-> d.claims.sub,
                              email |-> d.claims.email,
                              first_name |-> d.claims.given_name,
                              last_name |-> d.claims.family_name,
                              department |-> tenant.identifier,
                              status |-> "active", last_login |-> utcnow]
                  IN  Pending(Write("refresh", "insert", rx,
                                    tenant.id, obj, UserColumns), d.fetches)
             ELSE LET user == CHOOSE u \in UserBySub(d.claims.sub) : TRUE
                      obj == [user EXCEPT !.last_login = utcnow]
                  IN  Pending(Write("refresh", "update", rx,
                                    user.tenant_id, obj, Dirty(user, obj)), d.fetches)

\* lines 245-268: refresh the token, decode it, find the user, set last_login
RefreshRead(rx, utcnow) ==
    IF refresh_access_token(rx).kind # "ok"
    THEN Raised(500, refresh_access_token(rx).kind, 0)
    ELSE LET d == decode_token(rx.access_token, rx.jwks)
         IN  IF d.kind # "ok"
             THEN Raised(500, d.kind, d.fetches)
             ELSE IF UserBySub(d.claims.sub) = {}
             THEN Raised(404, "User not found", d.fetches)
             ELSE LET user == CHOOSE u \in UserBySub(d.claims.sub) : TRUE
                      obj == [user EXCEPT !.last_login = utcnow]
                  IN  Pending(Write("refresh", "update", rx,
                                    user.tenant_id, obj, Dirty(user, obj)), d.fetches)

RefreshBegin(X) ==
    /\ \E rx \in X :
         LET r == RefreshRead(rx, now + 1)
         IN  /\ outage' = Noted(outage, rx.jwks)
             /\ IF ~r.pending
                THEN /\ last' = Ended("refresh", r.status, r.detail, rx.access_token,
                                      rx.jwks, r.fetches, rx.kind,
                                      refresh_access_token(rx).posts)
                     /\ open' = Scoped(open, r.status)
                     /\ UNCHANGED <<now, pend>>
                ELSE /\ now < MaxTime
                     /\ now' = now + 1
                     /\ pend' = pend \cup {r.write}
                     /\ open' = open + 1
                     /\ last' = NoRequest
    /\ UNCHANGED <<tenants, users, public_key>>

\* lines 269-311: commit, refresh, load the tenant, build the TokenResponse
RefreshCommit(p, S) ==
    /\ p.op = "refresh"
    /\ \E broken \in S :
         LET f == Commit(p, broken)
         IN  /\ users' = f.table
             /\ last' = IF f.ok
                        THEN [Ended("refresh", 200, "ok", p.token, p.jwks, 1,
                                    "ok", p.posts) EXCEPT
                                 !.body = TokenBody(p.token, f.row, f.row.tenant_id)]
                        ELSE Ended("refresh", 500, f.error, p.token, p.jwks, 1,
                                   "ok", p.posts)
    /\ pend' = pend \ {p}
    /\ open' = Released(open, last'.status)
    /\ UNCHANGED <<tenants, now, public_key, outage>>

(***************************************************************************)
(* POST /auth/logout                                                       *)
(***************************************************************************)
\* what POST logout_url can produce
LogoutEndpointAnswers == { [kind |-> k] : k \in {"ok"} \cup ProviderFailures }

\* the handler without the get_current_user dependency
LogoutResponse_NoAuth(token, jwks, answer) ==
    LET r == revoke_token(answer)
    IN  IF r.kind = "ok"
        THEN [Ended("logout", 200, "ok", token, jwks, 0, answer.kind, r.posts) EXCEPT
                 !.body = [message |-> "Logged out successfully"]]
        ELSE Ended("logout", 500, r.kind, token, jwks, 0, answer.kind, r.posts)

\* get_current_user first (the dependency), then lines 333-346: revoke the
\* refresh token; any exception becomes a 500
LogoutResponse(token, jwks, answer) ==
    LET a == get_current_user(token, jwks)
    IN  IF a.status # 200
        THEN Ended("logout", a.status, a.detail, token, jwks, a.fetches, NONE, 0)
        ELSE LET r == revoke_token(answer)
             IN  IF r.kind = "ok"
                 THEN [Ended("logout", 200, "ok", token, jwks, a.fetches,
                             answer.kind, r.posts) EXCEPT
                          !.body = [message |-> "Logged out successfully"]]
                 ELSE Ended("logout", 500, r.kind, token, jwks, a.fetches,
                            answer.kind, r.posts)

Logout(I, A) ==
    \E i \in I, answer \in A :
        /\ last' = LogoutResponse(i.token, i.jwks, answer)
        /\ open' = Scoped(open, last'.status)
        /\ outage' = Noted(outage, i.jwks)
        /\ UNCHANGED <<tenants, users, now, public_key, pend>>

(***************************************************************************)
(* The system.                                                             *)
(***************************************************************************)
\* a user row as it was written by an earlier login into tenant tid
SeedUser(id, sub, email, tid, status) ==
    [id |-> id, tenant_id |-> tid, keycloak_user_id |-> sub, email |-> email,
     first_name |-> "Ann", last_name |-> "Lee",
     department |-> IF tid = "TA" THEN "tenant-a" ELSE "tenant-b",
     status |-> status, last_login |-> 0]

\* users tables the store can hold at start: s1 absent or in any tenant and
\* status, s2 absent or an active user of tenant A
InitialUsers ==
    { {} }
    \cup { { SeedUser(1, "s1", "a@x.com", tid, st) } : tid \in {"TA", "TB"}, st \in Statuses }
    \cup { { SeedUser(1, "s1", "a@x.com", "TA", st), SeedUser(2, "s2", "b@x.com", "TA", "active") } :
             st \in Statuses }

\* the tenants table with tenant A active or not
TenantTablesCore == { tt \in TenantTables : \E t \in tt : t.id = "TB" /\ t.status = "active" }

\* every token of T with every key-set answer of J
Inputs(T, J) == { [token |-> t, jwks |-> j] : t \in T, j \in J }

JwksK1 == [kind |-> "keys", keys |-> {"k1"}, status |-> 200]
JwksDown == [kind |-> "unreachable", keys |-> {}, status |-> 0]

\* what the whole-system specification presents to callback: the
\* four complete identities, a token without sub, one without email, an
\* expired one, and a good one while the key set cannot be fetched
SpecTokens ==
    { t \in ProfileTokens : t.sub # NONE /\ t.email # NONE }
    \cup { BaseToken(NONE, "a@x.com", <<"Ann", "Lee">>),
           BaseToken("s1", NONE, <<"Ann", "Lee">>),
           [GoodToken EXCEPT !.exp = "expired"] }

SpecInputs == Inputs(SpecTokens, {JwksK1}) \cup Inputs({GoodToken}, {JwksDown})

\* what it presents to the read-only endpoints
ReadInputs ==
    Inputs({ GoodToken, BaseToken("s2", "b@x.com", <<"Bea", "Kim">>),
             [GoodToken EXCEPT !.exp = "expired"] }, {JwksK1})

\* what it presents to refresh: either subject, no subject, an expired token,
\* and a good one while the key set cannot be fetched
RefreshInputs ==
    ReadInputs
    \cup Inputs({BaseToken(NONE, "a@x.com", <<"Ann", "Lee">>)}, {JwksK1})
    \cup Inputs({GoodToken}, {JwksDown})

Init ==
    /\ tenants \in TenantTablesCore
    /\ users \in InitialUsers
    /\ now = 0
    /\ public_key = NONE
    /\ pend = {}
    /\ open = 0
    /\ outage = "unrecorded"
    /\ last = NoRequest

Next ==
    \/ IdentifyTenant
    \/ GetMe(ReadInputs)
    \/ ProtectedEndpoint(ReadInputs)
    \/ CallbackBegin(TokenEndpointResponses(SpecInputs))
    \/ \E p \in pend : CallbackCommit(p, StoreUp)
    \/ RefreshBegin(TokenEndpointResponses(RefreshInputs))
    \/ \E p \in pend : RefreshCommit(p, StoreUp)

Spec == Init /\ [][Next]_vars

\* token verification alone, over every kind of token and key-set answer
InitVerify ==
    /\ tenants \in TenantTablesCore
    /\ users \in InitialUsers
    /\ now = 0
    /\ public_key = NONE
    /\ pend = {}
    /\ open = 0
    /\ outage = "unrecorded"
    /\ last = NoRequest

NextVerify ==
    \/ GetMe(Inputs(Tokens, JwksResponses))
    \/ ProtectedEndpoint(Inputs(Tokens, JwksResponses))
    \/ DataEndpoint(Inputs(Tokens, JwksResponses))

SpecVerify == InitVerify /\ [][NextVerify]_vars

\* what the outage specification presents: a good, an expired and a subjectless
\* token while the key set is served, unreachable, or answered with a broken body
OutageInputs ==
    Inputs({ GoodToken, [GoodToken EXCEPT !.exp = "expired"],
             BaseToken(NONE, "a@x.com", <<"Ann", "Lee">>) },
           { JwksK1, JwksDown, [kind |-> "malformed", keys |-> {}, status |-> 200] })

\* verification across an outage of the key-set endpoint, with the failed
\* fetches of earlier requests on record
InitOutage ==
    /\ tenants \in TenantTablesCore
    /\ users \in InitialUsers
    /\ now = 0
    /\ public_key = NONE
    /\ pend = {}
    /\ open = 0
    /\ outage = "none"
    /\ last = NoRequest

NextOutage ==
    \/ GetMe(OutageInputs)
    \/ ProtectedEndpoint(OutageInputs)
    \/ DataEndpoint(OutageInputs)

SpecOutage == InitOutage /\ [][NextOutage]_vars

\* the reconciler alone, against a store whose connection can break at commit
InitStore ==
    /\ tenants \in TenantTablesCore
    /\ users \in InitialUsers
    /\ now = 0
    /\ public_key = NONE
    /\ pend = {}
    /\ open = 0
    /\ outage = "unrecorded"
    /\ last = NoRequest

NextStore ==
    \/ CallbackBegin(TokenEndpointResponses(SpecInputs))
    \/ \E p \in pend : CallbackCommit(p, StoreFaulty)
    \/ RefreshBegin(TokenEndpointResponses(RefreshInputs))
    \/ \E p \in pend : RefreshCommit(p, StoreFaulty)

SpecStore == InitStore /\ [][NextStore]_vars

\* what the provider-failure specification presents: two subjects, with the
\* key set answered properly or with a non-2xx status
UpstreamInputs ==
    Inputs({ GoodToken, BaseToken("s2", "b@x.com", <<"Bea", "Kim">>) }, {JwksK1} \cup JwksErrors)

\* the handlers that call the provider, with every way its endpoints can fail
InitUpstream ==
    /\ tenants \in TenantTablesCore
    /\ users \in InitialUsers
    /\ now = 0
    /\ public_key = NONE
    /\ pend = {}
    /\ open = 0
    /\ outage = "unrecorded"
    /\ last = NoRequest

NextUpstream ==
    \/ CallbackBegin(TokenEndpointAnswers(UpstreamInputs))
    \/ \E p \in pend : CallbackCommit(p, StoreUp)
    \/ RefreshBegin(TokenEndpointAnswers(UpstreamInputs))
    \/ \E p \in pend : RefreshCommit(p, StoreUp)
    \/ Logout(UpstreamInputs, LogoutEndpointAnswers)

SpecUpstream == InitUpstream /\ [][NextUpstream]_vars

\* what the all-operations specification presents: the two complete identities
\* while the key set is served
RowsInputs ==
    Inputs({ GoodToken, BaseToken("s2", "b@x.com", <<"Bea", "Kim">>) }, {JwksK1})

\* the tenants table after tenant A was deleted
TenantTableWithoutA == { t \in SeedTenants : t.id # "TA" }

\* the users tables left when tenant A is deleted: its users go with it
\* (cascade="all, delete-orphan")
UsersWithoutA == { U \in InitialUsers : \A u \in U : u.tenant_id # "TA" }

\* every operation of the backend next to every other, with tenant A active,
\* inactive or deleted
InitRows ==
    /\ \/ tenants \in TenantTablesCore /\ users \in InitialUsers
       \/ tenants = TenantTableWithoutA /\ users \in UsersWithoutA
    /\ now = 0
    /\ public_key = NONE
    /\ pend = {}
    /\ open = 0
    /\ outage = "unrecorded"
    /\ last = NoRequest

NextRows ==
    \/ IdentifyTenant
    \/ GetMe(RowsInputs)
    \/ Logout(ReadInputs, LogoutEndpointAnswers)
    \/ CallbackBegin(TokenEndpointResponses(RowsInputs))
    \/ \E p \in pend : CallbackCommit(p, StoreUp)
    \/ RefreshBegin(TokenEndpointResponses(RowsInputs))
    \/ \E p \in pend : RefreshCommit(p, StoreUp)

SpecRows == InitRows /\ [][NextRows]_vars

(***************************************************************************)
(* Properties of the tenant directory.                                     *)
(***************************************************************************)
\* the rows of the tenants table a department names, whatever their status
TenantsNamed(d) == { t \in tenants : t.identifier = d }

\* C5: a department that names an inactive tenant is answered as a normal
\* response (200) with tenant_found = false, although the identifier matches.
C5_InactiveTenantNotFound ==
    (last.op = "identify_tenant" /\ \E t \in TenantsNamed(last.dept) : t.status = "inactive")
        => (last.status = 200 /\ last.body.tenant_found = FALSE)

C5_Witness ==
    /\ last.op = "identify_tenant"
    /\ \E t \in TenantsNamed(last.dept) : t.status = "inactive"
    /\ last.body.tenant_found = FALSE

\* C6: a department that names no tenant at all is answered 200 with
\* tenant_found = false and tenant_name, tenant_id, keycloak_auth_url all None.
C6_UnknownDepartmentAllNull ==
    (last.op = "identify_tenant" /\ TenantsNamed(last.dept) = {})
        => /\ last.status = 200
           /\ last.body.tenant_found = FALSE
           /\ last.body.tenant_name = NONE
           /\ last.body.tenant_id = NONE
           /\ last.body.keycloak_auth_url = NONE

C6_Witness ==
    /\ last.op = "identify_tenant"
    /\ last.dept = "unknown-dept"
    /\ TenantsNamed(last.dept) = {}
    /\ last.body.tenant_found = FALSE

\* the segments of s between occurrences of sep
RECURSIVE SplitOn(_, _)
SplitOn(s, sep) ==
    IF \A i \in 1..Len(s) : s[i] # sep THEN <<s>>
    ELSE LET k == CHOOSE i \in 1..Len(s) : s[i] = sep /\ \A j \in 1..(i - 1) : s[j] # sep
         IN  <<SubSeq(s, 1, k - 1)>> \o SplitOn(SubSeq(s, k + 1, Len(s)), sep)

\* unquote_plus: "+" is a space, "%" and two hex digits is the character they name
RECURSIVE UnquotePlus(_)
UnquotePlus(s) ==
    IF s = <<>> THEN <<>>
    ELSE IF Head(s) = "+" THEN <<" ">> \o UnquotePlus(Tail(s))
    ELSE IF Head(s) = "%" /\ Len(s) >= 2 /\ \E c \in Reserved : PctCode(c) = s[2]
        THEN <<CHOOSE c \in Reserved : PctCode(c) = s[2]>> \o UnquotePlus(SubSeq(s, 3, Len(s)))
    ELSE <<Head(s)>> \o UnquotePlus(Tail(s))

\* what a browser or the provider reads out of a query string: the name and
\* value of each "&"-separated field, split at its first "="
ParseQuery(q) ==
    LET fields == SplitOn(q, "&")
        pair(f) == LET kv == SplitOn(f, "=")
                   IN  <<UnquotePlus(kv[1]),
                         UnquotePlus(SubSeq(f, Len(kv[1]) + 2, Len(f)))>>
    IN  [i \in 1..Len(fields) |-> pair(fields[i])]

\* C7: for a matched active tenant the URL is the authorize endpoint, "?", and a
\* query that reads back as exactly client_id, response_type=code, redirect_uri
\* and kc_idp_hint = the tenant's keycloak_idp_alias, in that order.
C7_AuthorizationUrl ==
    (last.op = "identify_tenant" /\ last.body.tenant_found)
        => \E t \in tenants :
              /\ t.id = last.body.tenant_id
              /\ t.identifier = last.dept
              /\ t.status = "active"
              /\ LET url == last.body.keycloak_auth_url
                     n == Len(auth_url)
                 IN  /\ Len(url) > n + 1
                     /\ SubSeq(url, 1, n) = auth_url
                     /\ url[n + 1] = "?"
                     /\ ParseQuery(SubSeq(url, n + 2, Len(url)))
                          = << <<<<"client_id">>, KEYCLOAK_CLIENT_ID>>,
                               <<<<"response_type">>, <<"code">>>>,
                               <<<<"redirect_uri">>, OAUTH_REDIRECT_URI>>,
                               <<<<"kc_idp_hint">>, t.keycloak_idp_alias>> >>

C7_Witness ==
    /\ last.op = "identify_tenant"
    /\ last.body.tenant_found
    /\ \E t \in tenants :
          /\ t.id = last.body.tenant_id
          /\ t.keycloak_idp_alias = <<"a", "&", "b", "=", "c">>

(***************************************************************************)
(* Properties of token verification.                                       *)
(***************************************************************************)
Expired(t) == t.exp = "expired"
Malformed(t) == t.form # "jwt"
SignatureMismatch(t) == t.sig = "bad"
UnknownKeyId(t, keys) == t.kid \notin keys

\* the token is one a verifier holding the fetched key set must accept
Verifies(t, jwks) ==
    /\ jwks.kind = "keys"
    /\ ~Malformed(t)
    /\ ~SignatureMismatch(t)
    /\ ~UnknownKeyId(t, jwks.keys)
    /\ ~Expired(t)

VerifyingOps == {"me", "protected"}

\* C4: /me with a token that verifies and whose subject is an inactive user is
\* answered 403; with a token that does not verify it is answered 401.
C4_ForbiddenVsUnauthenticated ==
    last.op = "me" =>
        /\ (/\ Verifies(last.token, last.jwks)
            /\ \E u \in users : u.keycloak_user_id = last.token.sub /\ u.status = "inactive")
              => last.status = 403
        /\ ~Verifies(last.token, last.jwks) => last.status = 401

C4_Witness ==
    /\ last.op = "me"
    /\ Verifies(last.token, last.jwks)
    /\ \E u \in users : u.keycloak_user_id = last.token.sub /\ u.status = "inactive"
    /\ last.status = 403

\* C8: the key cache is never filled, so every token's key id is absent from
\* it; every verification makes exactly one JWKS fetch, after which an
\* otherwise sound token is accepted if its key is in the fetched set and is
\* rejected as an invalid token (401) if it is not.
C8_OneFetchPerVerification ==
    /\ public_key = NONE
    /\ last.op \in VerifyingOps =>
        /\ last.fetches = 1
        /\ (/\ last.jwks.kind = "keys"
            /\ ~Malformed(last.token) /\ ~SignatureMismatch(last.token) /\ ~Expired(last.token))
              => IF UnknownKeyId(last.token, last.jwks.keys)
                 THEN /\ decode_token(last.token, last.jwks).kind = "InvalidToken"
                      /\ last.status = 401
                 ELSE /\ decode_token(last.token, last.jwks).kind = "ok"
                      /\ (last.op = "protected" /\ last.token.sub # NONE) => last.status = 200

\* a token signed with k2 is accepted after the one fetch returned k2
C8_Witness ==
    /\ last.op = "protected"
    /\ last.token.kid = "k2"
    /\ last.jwks.kind = "keys" /\ "k2" \in last.jwks.keys
    /\ last.fetches = 1
    /\ last.status = 200

\* C9: an expired, malformed, wrongly signed or unknown-key token fails
\* decode_token as an invalid token, and /me and /protected answer 401 with no
\* user and no claims.
C9_InvalidTokensDenied ==
    (/\ last.op \in VerifyingOps
     /\ last.jwks.kind = "keys"
     /\ \/ Expired(last.token) \/ Malformed(last.token)
        \/ SignatureMismatch(last.token) \/ UnknownKeyId(last.token, last.jwks.keys))
        => /\ decode_token(last.token, last.jwks).kind = "InvalidToken"
           /\ last.status = 401
           /\ last.body = NONE

C9_Witness ==
    /\ last.op = "me"
    /\ last.jwks.kind = "keys"
    /\ Expired(last.token)
    /\ ~Malformed(last.token) /\ ~SignatureMismatch(last.token)
    /\ ~UnknownKeyId(last.token, last.jwks.keys)
    /\ last.status = 401

(***************************************************************************)
(* Properties of the user reconciler.                                      *)
(***************************************************************************)
\* the step is the commit of the pending write p
Commits(p) == p \in pend /\ pend' = pend \ {p}

\* no two rows of the users table carry the same keycloak_user_id
OneRowPerSub ==
    \A u1, u2 \in users : u1.keycloak_user_id = u2.keycloak_user_id => u1 = u2

\* a callback that found no user at its lookup commits after another request
\* inserted that sub: the table is left as it is and the answer is 500
RacedInsertRejected ==
    \A p \in pend :
        (/\ Commits(p)
         /\ p.kind = "insert"
         /\ \E u \in users : u.keycloak_user_id = p.obj.keycloak_user_id)
            => /\ users' = users
               /\ last'.op = "callback"
               /\ last'.status = 500

SecondCallbackUpdates ==
    \A p \in pend :
        (/\ Commits(p)
         /\ p.op = "callback"
         /\ last'.status = 200
         /\ \E u \in users : u.keycloak_user_id = p.obj.keycloak_user_id)
            => /\ Cardinality(users') = Cardinality(users)
               /\ \A u \in users : u.keycloak_user_id = p.obj.keycloak_user_id
                                      => last'.body.user.id = u.id
               /\ last'.body.user.last_login = p.obj.last_login
               /\ last'.body.user \in users'
               /\ \A u \in users' : u.keycloak_user_id = p.obj.keycloak_user_id
                                      => u = last'.body.user

\* a row keeps its id and its keycloak_user_id for ever
RowIdentityKept ==
    \A u \in users : \E v \in users' :
        v.id = u.id /\ v.keycloak_user_id = u.keycloak_user_id

\* C2: callback is idempotent on sub: a callback for a sub that already has a
\* row (the second call) produces no new row, returns the id the row was
\* created with, and sets last_login to the second call's time.
C2_CallbackIdempotentOnSub ==
    []OneRowPerSub /\ [][SecondCallbackUpdates /\ RowIdentityKept]_vars

\* the row of s2 was created in this run (a seeded s2 has id 2) and the callback
\* that just answered updated it
C2_Witness ==
    /\ last.op = "callback"
    /\ last.status = 200
    /\ last.detail = "Updated existing user"
    /\ last.body.user.keycloak_user_id = "s2"
    /\ last.body.user.id = 1
    /\ last.body.user.last_login = now
    /\ users = {last.body.user}

\* C3: no /me, refresh or callback answers 200 for a subject whose user row is
\* not active.
C3_InactiveNeverAuthenticated ==
    (last.op \in {"me", "refresh", "callback"} /\ last.status = 200)
        => last.body.user.status = "active"

\* C10: a callback whose token verified but lacks sub or email answers 400,
\* and the step that answers 400 leaves the users table as it was.
C10_IncompleteClaimsRejected ==
    /\ [](( /\ last.op = "callback"
            /\ Verifies(last.token, last.jwks)
            /\ (last.token.sub = NONE \/ last.token.email = NONE))
              => last.status = 400)
    /\ [][(last'.op = "callback" /\ last'.status = 400) => users' = users]_vars
    /\ [](\A u \in users : u.keycloak_user_id # NONE /\ u.email # NONE)

C10_Witness ==
    /\ last.op = "callback"
    /\ Verifies(last.token, last.jwks)
    /\ last.token.sub # NONE
    /\ last.token.email = NONE
    /\ last.status = 400

(***************************************************************************)
(* Properties of the reconciler's transaction.                             *)
(***************************************************************************)
\* what a failed commit is reported as
PersistenceErrors == {"IntegrityError", "OperationalError"}

\* the commit of a callback either applies its whole write and answers 200 with
\* the written row, or answers 500 with a persistence error and leaves the
\* users table exactly as it was
CallbackCommitAtomic ==
    \A p \in pend :
        (Commits(p) /\ p.op = "callback")
            => \/ /\ last'.status = 200
                  /\ last'.body.user \in users'
                  /\ \A f \in p.dirty \ {"id"} : last'.body.user[f] = p.obj[f]
                  /\ users' \ {last'.body.user} \subseteq users
                  /\ \A u \in users : u.id # last'.body.user.id => u \in users'
               \/ /\ last'.status = 500
                  /\ last'.detail \in PersistenceErrors
                  /\ users' = users

UniqueTenantEmail ==
    \A u1, u2 \in users :
        (u1.tenant_id = u2.tenant_id /\ u1.email = u2.email) => u1 = u2

\* the row a pending write leaves if the store accepts it
RowWritten(p) ==
    IF p.kind = "insert" THEN p.obj ELSE Updated(UserById(p.id), p.obj, p.dirty)

\* a callback commit whose row would carry an email another row of the same
\* tenant holds is rejected: 500, and every row stays as it was
EmailConflictRejected ==
    \A p \in pend :
        (/\ Commits(p)
         /\ p.op = "callback"
         /\ \E u \in users : /\ u.id # p.id
                             /\ u.tenant_id = RowWritten(p).tenant_id
                             /\ u.email = RowWritten(p).email)
            => /\ users' = users
               /\ last'.status = 500

\* C12: in every reachable state no two user rows share (tenant_id, email), and
\* a callback that would create a user with, or move a user to, an email held
\* by another user of the same tenant answers 500 and changes no row.
C12_TenantEmailUnique == []UniqueTenantEmail /\ [][EmailConflictRejected]_vars

\* the callback of s1 asked for the mailbox the row of s2 holds and was rejected
C12_Witness ==
    /\ last.op = "callback"
    /\ last.status = 500
    /\ last.detail = "IntegrityError"
    /\ \E u, v \in users :
          /\ u.keycloak_user_id = last.token.sub
          /\ v.keycloak_user_id # last.token.sub
          /\ v.email = last.token.email
          /\ v.tenant_id = "TA"
          /\ u.email # last.token.email

\* C14: every successful callback and every successful refresh for an existing
\* subject leaves the row with the email, first_name and last_name of the token
\* the request decoded, and with last_login at the time the request read.
C14_ClaimFieldsRefreshed ==
    [][\A p \in pend :
          (Commits(p) /\ p.kind = "update" /\ last'.status = 200)
              => /\ last'.body.user.email = p.token.email
                 /\ last'.body.user.first_name = p.token.given_name
                 /\ last'.body.user.last_name = p.token.family_name
                 /\ last'.body.user.last_login = p.obj.last_login]_vars

(***************************************************************************)
(* Properties of the callback's step order and of the request's session.   *)
(***************************************************************************)
\* the tenant a pending callback write was made for is the active tenant the
\* callback's department names
TenantResolved(p) ==
    \E t \in tenants :
        /\ t.id = p.tenant_id
        /\ t.identifier = CallbackDepartment
        /\ t.status = "active"
        /\ p.obj.tenant_id = t.id

\* a write is pending or committed only for a callback whose exchange answered,
\* whose token verified and whose tenant was resolved
WriteAfterAllSteps ==
    \A p \in pend :
        p.op = "callback"
            => /\ p.token # NoToken
               /\ p.posts = 1
               /\ Verifies(p.token, p.jwks)
               /\ TenantResolved(p)

\* the answer of a callback tells how far it got: no key set is fetched unless
\* the exchange answered, the tenant is looked up (404) and the claims are
\* judged (400) only for a verified token, and 200 needs all three
AnswerFollowsOrder ==
    last.op = "callback"
        => /\ last.upstream # "ok" => (last.fetches = 0 /\ last.status = 500)
           /\ last.status \in {200, 400, 404}
                 => (last.upstream = "ok" /\ Verifies(last.token, last.jwks))
           /\ last.status = 200
                 => \E t \in ActiveTenantByIdentifier(CallbackDepartment) :
                        last.body.tenant_id = t.id /\ last.body.user.tenant_id = t.id

\* the users table changes only in the commit of a pending write, and a
\* callback that does not answer 200 changes nothing
OnlyCommitsWrite ==
    /\ users' # users => \E p \in pend : Commits(p) /\ last'.status = 200
    /\ (last'.op = "callback" /\ last'.status # 200) => users' = users

\* C15: a callback runs exchange, verify, resolve tenant, reconcile in that
\* order: a user row is created or modified by a callback only if in that same
\* request the exchange answered, the token verified and an active tenant was
\* resolved; a callback that stops earlier writes nothing.
C15_CallbackStepOrder ==
    [](WriteAfterAllSteps /\ AnswerFollowsOrder) /\ [][OnlyCommitsWrite]_vars

\* a first login that went through all four steps
C15_Witness ==
    /\ last.op = "callback"
    /\ last.status = 200
    /\ last.detail = "Created new user"
    /\ last.upstream = "ok"
    /\ Verifies(last.token, last.jwks)
    /\ last.body.user \in users
    /\ last.body.user.tenant_id = "TA"

\* C16: every database session acquired by a request is closed when the request
\* ends, whether it returned, raised an HTTPException or hit a persistence
\* error: the sessions open are exactly those of the requests still in flight.
C16_SessionClosedOnEveryExit == open = Cardinality(pend)

\* a callback has just failed on a persistence error and no session is open
C16_Witness ==
    /\ last.op = "callback"
    /\ last.status = 500
    /\ last.detail \in PersistenceErrors
    /\ pend = {}
    /\ open = 0

(***************************************************************************)
(* Properties of verification across failures, audiences and services.     *)
(***************************************************************************)
\* the key set could not be had: no answer, or a body that is not JSON
KeySetUnavailable(jwks) == jwks.kind \in {"unreachable", "malformed"}

ServiceOps == {"protected", "data"}

\* C17: a failed key-set fetch fails that verification with the fetch's own
\* error (401 at the boundary) and leaves nothing behind: a later request that
\* presents a sound token while the endpoint answers fetches the keys again
\* and is verified, although an earlier fetch had failed.
C17_FetchFailureNotRemembered ==
    /\ public_key = NONE
    /\ (last.op \in VerifyingOps \cup ServiceOps /\ KeySetUnavailable(last.jwks))
          => /\ decode_token(last.token, last.jwks).kind = "FetchError"
             /\ last.fetches = 1
             /\ last.status = 401
    /\ (/\ outage = "failed"
        /\ last.op \in VerifyingOps \cup ServiceOps
        /\ Verifies(last.token, last.jwks)
        /\ last.token.sub # NONE)
          => /\ last.fetches = 1
             /\ last.op \in ServiceOps => last.status = 200
             /\ last.op = "me" => last.status # 401

\* an earlier request failed on the key set, and the latest one, made while
\* the endpoint answers, fetched the keys and was granted access
C17_Witness ==
    /\ outage = "failed"
    /\ last.op = "protected"
    /\ last.jwks.kind = "keys"
    /\ Verifies(last.token, last.jwks)
    /\ last.fetches = 1
    /\ last.status = 200

\* t2 is t1 with another audience and / or issuer
SameButAudIss(t1, t2) == [t1 EXCEPT !.aud = t2.aud, !.iss = t2.iss] = t2

\* C18: audience and issuer play no part in verification: every token that
\* differs from the presented one only in aud and iss decodes to the same
\* outcome and gets the same answer, and a well-formed, correctly signed,
\* unexpired token is accepted whatever its aud and iss.
C18_AudienceIssuerNotEnforced ==
    last.op \in VerifyingOps \cup ServiceOps =>
        /\ \A t2 \in Tokens :
              SameButAudIss(last.token, t2)
                  => /\ decode_token(t2, last.jwks).kind
                          = decode_token(last.token, last.jwks).kind
                     /\ last.op = "protected"
                          => ProtectedResponse(t2, last.jwks).status = last.status
                     /\ last.op = "data"
                          => DataResponse(t2, last.jwks).status = last.status
                     /\ last.op = "me"
                          => GetMeResponse(t2, last.jwks).status = last.status
        /\ Verifies(last.token, last.jwks)
              => /\ decode_token(last.token, last.jwks).kind = "ok"
                 /\ (last.op \in ServiceOps /\ last.token.sub # NONE) => last.status = 200

\* a token for another client, issued by another realm, was granted access
C18_Witness ==
    /\ last.op = "protected"
    /\ last.token.aud = "other-client"
    /\ last.token.iss = "other-realm"
    /\ Verifies(last.token, last.jwks)
    /\ last.status = 200

\* C19: /protected and /data answer 200 exactly when the token verifies against
\* the fetched key set and carries a sub; otherwise they answer 401 with no
\* body.  The users and tenants tables play no part: access is granted also
\* when the subject has no user row or an inactive one.
C19_ServiceGrantsOnTokenOnly ==
    last.op \in ServiceOps =>
        IF Verifies(last.token, last.jwks) /\ last.token.sub # NONE
        THEN /\ last.status = 200
             /\ last.op = "data" => last.body.data = SampleData
             /\ last.op = "protected" => last.body.id = last.token.sub
        ELSE /\ last.status = 401
             /\ last.body = NONE

\* /data answered a subject that has no user row
C19_Witness ==
    /\ last.op = "data"
    /\ last.status = 200
    /\ last.token.sub # NONE
    /\ UserBySub(last.token.sub) = {}
    /\ last.body.user_email = last.token.email

(***************************************************************************)
(* Properties of the calls to the provider.                                *)
(***************************************************************************)
\* the errors the provider client raises for a failed call
UpstreamAuthErrors ==
    {"Token exchange failed", "Token refresh failed", "Token revocation failed"}

ProviderOps == {"callback", "refresh", "logout"}

\* the key-set endpoint answered, with a status outside 2xx
JwksNon2xx(jwks) == jwks.status >= 300

\* C13: each of callback, refresh and logout makes at most one POST to the
\* endpoint it targets and at most one GET of the key set; a non-2xx answer to
\* the POST fails the request with the provider client's error, and so does a
\* non-2xx answer to the key-set GET inside callback's and refresh's decode.
C13_UpstreamErrorsNoRetry ==
    last.op \in ProviderOps =>
        /\ last.posts <= 1
        /\ last.fetches <= 1
        /\ last.upstream = "non_2xx"
              => (last.status = 500 /\ last.detail \in UpstreamAuthErrors)
        /\ (last.op \in {"callback", "refresh"} /\ JwksNon2xx(last.jwks))
              => (last.status = 500 /\ last.detail \in UpstreamAuthErrors)

\* C20: when the exchange, the refresh or the revocation fails (a non-2xx
\* answer or none), callback, refresh and logout answer 500 with the client's
\* error and no body, never a success payload; logout answers "Logged out
\* successfully" only after the provider accepted the revocation; and the step
\* that reports the failure leaves the users table and the pending writes as
\* they were.
C20_UpstreamFailureNotSwallowed ==
    /\ []((last.op \in ProviderOps /\ last.upstream \in ProviderFailures)
            => /\ last.status = 500
               /\ last.detail \in UpstreamAuthErrors
               /\ last.body = NONE)
    /\ []((last.op = "logout" /\ last.status = 200) => last.upstream = "ok")
    /\ [][(last'.op \in ProviderOps /\ last'.upstream \in ProviderFailures)
            => (users' = users /\ pend' = pend)]_vars

\* an authenticated logout whose revocation the provider refused
C20_Witness ==
    /\ last.op = "logout"
    /\ last.upstream = "non_2xx"
    /\ Verifies(last.token, last.jwks)
    /\ \E u \in users : u.keycloak_user_id = last.token.sub /\ u.status = "active"
    /\ last.posts = 1
    /\ last.status = 500
    /\ last.detail = "Token revocation failed"

(***************************************************************************)
(* Properties of the rows the reconciler creates and updates.              *)
(***************************************************************************)
\* a callback takes the create branch exactly when its lookup finds no row for
\* the token's sub, and the row it prepares carries the time the request read
BranchByLookup ==
    \A p \in pend' \ pend :
        p.op = "callback"
            => /\ p.kind = "insert" <=> UserBySub(p.token.sub) = {}
               /\ p.obj.last_login = now'

\* the commit of a create branch that answers 200 adds one row and changes no
\* other: the new row is active, carries the request's time, the token's sub
\* and the id of the tenant the request resolved, and is the row answered
CreatesOneRow ==
    \A p \in pend :
        (Commits(p) /\ p.op = "callback" /\ p.kind = "insert" /\ last'.status = 200)
            => /\ UserBySub(p.token.sub) = {}
               /\ Cardinality(users') = Cardinality(users) + 1
               /\ \E row \in users' \ users :
                     /\ users' = users \cup {row}
                     /\ \A u \in users : u.id # row.id
                     /\ row.status = "active"
                     /\ row.last_login = p.obj.last_login
                     /\ row.last_login \in 1..now
                     /\ row.keycloak_user_id = p.token.sub
                     /\ row.tenant_id = p.tenant_id
                     /\ TenantResolved(p)
                     /\ last'.body.user = row
                     /\ last'.detail = "Created new user"

\* C21: a callback that finds no user with the token's sub creates exactly one
\* new row: status active, last_login the time the request read, external
\* subject id the token's sub, tenant_id the tenant resolved in that request;
\* every other row is left as it was.
C21_CreateRowFields == [][BranchByLookup /\ CreatesOneRow]_vars

\* the first login of s2 next to the row of s1 that was already there
C21_Witness ==
    /\ last.op = "callback"
    /\ last.status = 200
    /\ last.detail = "Created new user"
    /\ last.token.sub = "s2"
    /\ last.body.user.status = "active"
    /\ last.body.user.last_login = now
    /\ last.body.user.tenant_id = "TA"
    /\ \E u \in users : u.keycloak_user_id = "s1" /\ u.id # last.body.user.id
    /\ Cardinality(users) = 2

\* the columns the update branch assigns (updated_at is not kept in the model)
OverwrittenColumns ==
    {"email", "first_name", "last_name", "department", "tenant_id", "last_login"}

\* the commit of an update branch that answers 200 replaces the row of that id
\* by one that differs from it in assigned columns only, carries what the
\* request assigned in every column it changed, and carries the token's email
\* and names when no other request wrote the row in between
UpdateFrame ==
    \A p \in pend :
        (Commits(p) /\ p.op = "callback" /\ p.kind = "update" /\ last'.status = 200)
            => LET cur == UserById(p.id)
                   row == last'.body.user
               IN  /\ p.dirty \subseteq OverwrittenColumns
                   /\ \A f \in UserColumns \ OverwrittenColumns : row[f] = cur[f]
                   /\ \A f \in p.dirty : row[f] = p.obj[f]
                   /\ row.last_login = p.obj.last_login
                   /\ row.department = CallbackDepartment
                   /\ row.tenant_id = p.tenant_id
                   /\ (\A f \in UserColumns \ p.dirty : cur[f] = p.obj[f])
                         => /\ row.email = p.token.email
                            /\ row.first_name = p.token.given_name
                            /\ row.last_name = p.token.family_name
                   /\ users' = (users \ {cur}) \cup {row}
                   /\ last'.detail = "Updated existing user"

\* no step changes the id, the external subject id or the status of a row
StatusKept ==
    \A u \in users : \E v \in users' :
        /\ v.id = u.id
        /\ v.keycloak_user_id = u.keycloak_user_id
        /\ v.status = u.status

\* C22: a callback that finds an existing user overwrites only email,
\* first_name, last_name, department, tenant_id and last_login; the row's id,
\* external subject id and status stay as they were, so a user marked inactive
\* is inactive after any number of callbacks (and refreshes).
C22_UpdateOverwritesListedOnly == [][UpdateFrame /\ StatusKept]_vars

\* an inactive user logged in with a new mailbox: the email is overwritten, the
\* row is still the same one and still inactive
C22_Witness ==
    /\ last.op = "callback"
    /\ last.status = 200
    /\ last.detail = "Updated existing user"
    /\ last.body.user.id = 1
    /\ last.body.user.keycloak_user_id = "s1"
    /\ last.body.user.email = "b@x.com"
    /\ last.body.user.status = "inactive"
    /\ last.body.user \in users

\* C23: after every successful callback the reconciled row is in the users
\* table and its department is the identifier of the tenant its tenant_id
\* references, which is the active tenant the request resolved, whatever
\* tenant and department the row carried before.
C23_DepartmentMirrorsTenant ==
    (last.op = "callback" /\ last.status = 200)
        => /\ last.body.user \in users
           /\ \E t \in tenants :
                 /\ t.id = last.body.user.tenant_id
                 /\ t.identifier = last.body.user.department
                 /\ t.status = "active"
                 /\ t.id = last.body.tenant_id

\* the user of a refresh still in flight was loaded as a member of tenant B;
\* the callback that just answered moved that row to tenant A
C23_Witness ==
    /\ last.op = "callback"
    /\ last.status = 200
    /\ last.detail = "Updated existing user"
    /\ last.body.user.tenant_id = "TA"
    /\ last.body.user.department = "tenant-a"
    /\ \E p \in pend :
          /\ p.op = "refresh"
          /\ p.id = last.body.user.id
          /\ p.obj.tenant_id = "TB"
          /\ p.obj.department = "tenant-b"

\* the ids of the rows of a users table
Ids(table) == { u.id : u \in table }

\* a row whose id is new was inserted by the commit of a callback that answers
\* 200 with that row
CreatedByCallbackOnly ==
    \A v \in users' :
        v.id \notin Ids(users)
            => /\ \E p \in pend : Commits(p) /\ p.op = "callback" /\ p.kind = "insert"
               /\ last'.op = "callback"
               /\ last'.status = 200
               /\ last'.body.user = v

\* the operations that are not callback leave the set of rows as it is:
\* identify_tenant, logout and /me change no row at all, refresh changes
\* columns of the row it found
OthersKeepRows ==
    /\ last'.op \in {"identify_tenant", "logout", "me"} => users' = users
    /\ last'.op = "refresh" => Ids(users') = Ids(users)

\* a refresh whose token verified and whose subject has no row answers 404
RefreshUnknownSubject ==
    (/\ last.op = "refresh"
     /\ Verifies(last.token, last.jwks)
     /\ UserBySub(last.token.sub) = {})
        => /\ last.status = 404
           /\ last.detail = "User not found"

NoActiveTenantNamed(d) == \A t \in tenants : t.identifier = d => t.status # "active"

\* C25: a callback whose exchange answered and whose token verified with sub
\* and email, made while the department names no active tenant (the tenant is
\* missing or inactive), answers 404 with no body; no callback write is ever
\* pending then, and the step that answers 404 leaves every user row (with its
\* last_login), the pending writes and the clock as they were.
C25_NoActiveTenantNoWrite ==
    /\ []((/\ last.op = "callback"
           /\ last.upstream = "ok"
           /\ Verifies(last.token, last.jwks)
           /\ last.token.sub # NONE /\ last.token.email # NONE
           /\ NoActiveTenantNamed(CallbackDepartment))
            => /\ last.status = 404
               /\ last.detail = "No active tenant found"
               /\ last.body = NONE)
    /\ [](NoActiveTenantNamed(CallbackDepartment) => \A p \in pend : p.op # "callback")
    /\ [][(last'.op = "callback" /\ NoActiveTenantNamed(CallbackDepartment))
            => (users' = users /\ pend' = pend /\ now' = now)]_vars

\* tenant A is gone; the callback of a subject that has a row (in tenant B) was
\* answered 404 and the row still carries the last_login it was seeded with
C25_Witness ==
    /\ last.op = "callback"
    /\ last.status = 404
    /\ TenantsNamed(CallbackDepartment) = {}
    /\ Verifies(last.token, last.jwks)
    /\ now = 0
    /\ \E u \in users : /\ u.keycloak_user_id = last.token.sub
                        /\ u.last_login = 0
                        /\ u.tenant_id = "TB"

(***************************************************************************)
(* Properties of logout.                                                   *)
(***************************************************************************)
\* the bearer token verifies and its subject has an active user row
AuthenticatedActive(token, jwks) ==
    /\ Verifies(token, jwks)
    /\ \E u \in users : u.keycloak_user_id = token.sub /\ u.status = "active"

\* C26: logout calls the provider's revocation endpoint only after the bearer
\* token was verified and mapped to an active user: a logout whose token is
\* invalid, whose subject has no row or whose user is inactive makes no POST
\* and is answered 401, 404 or 403; an authenticated logout makes exactly one.
C26_RevokeOnlyAfterAuth ==
    last.op = "logout" =>
        IF AuthenticatedActive(last.token, last.jwks)
        THEN /\ last.posts = 1
             /\ last.upstream # NONE
        ELSE /\ last.posts = 0
             /\ last.upstream = NONE
             /\ last.status = IF ~Verifies(last.token, last.jwks) THEN 401
                              ELSE IF UserBySub(last.token.sub) = {} THEN 404
                              ELSE 403
             /\ last.body = NONE

\* the logout of an inactive user: refused with 403 before any revocation
C26_Witness ==
    /\ last.op = "logout"
    /\ last.status = 403
    /\ last.posts = 0
    /\ Verifies(last.token, last.jwks)
    /\ \E u \in users : u.keycloak_user_id = last.token.sub /\ u.status = "inactive"

====
